---------------------------- MODULE Spec2Model ----------------------------
(***************************************************************************)
(* Model of rfmix (src/rfmix.h, src/rfmix.cpp): the log-odds probability  *)
(* codecs ef8/DF8 and ef16/DF16, the flattened index IDX, and the run of   *)
(* main (init_options, cmdline_getoptions, verify_options, the stages).    *)
(*                                                                         *)
(* Numbers.  A probability p handed to ef8/ef16 is k/PScale, written k     *)
(* (micro-units).  Real intermediate values are fixed-point numbers with   *)
(* 72 fraction bits kept in limbs of 24 bits, because the model checker's  *)
(* integers are 32 bits wide.  Values of type double are a 53-bit          *)
(* significand and an exponent, and the arithmetic operations on them      *)
(* round to nearest, ties to even, as IEEE 754 binary64 does; the library  *)
(* function exp returns one of the two doubles next to its value.          *)
(***************************************************************************)
EXTENDS Integers, Sequences, FiniteSets

Limb == 2^24
PScale == 10^6

IntMax == 2147483647
IntMin == -IntMax - 1

\* TRUE, after x was evaluated: keeps the iterations below from piling up
\* unevaluated terms.
Force(x) == x = x

\* floor(log2 n), n >= 1
RECURSIVE ILog2(_)
ILog2(n) == IF n < 2 THEN 0 ELSE 1 + ILog2(n \div 2)

-----------------------------------------------------------------------------
(* Fixed-point numbers x = <<a, b, c>>: value (a*Limb^2 + b*Limb + c)/2^72, *)
(* b, c < Limb.  The integer part is a \div Limb.                           *)

XZero == <<0, 0, 0>>
XOne == <<Limb, 0, 0>>
XTwo == <<2 * Limb, 0, 0>>
XUnit == <<0, 0, 1>>

XLeq(x, y) ==
  \/ x[1] < y[1]
  \/ x[1] = y[1] /\ x[2] < y[2]
  \/ x[1] = y[1] /\ x[2] = y[2] /\ x[3] <= y[3]

XAdd(x, y) ==
  LET c == x[3] + y[3]
      b == x[2] + y[2] + (c \div Limb)
  IN  <<x[1] + y[1] + (b \div Limb), b % Limb, c % Limb>>

\* x - y, for x >= y
XSub(x, y) ==
  LET c == x[3] - y[3]
      b == x[2] - y[2] - (IF c < 0 THEN 1 ELSE 0)
  IN  <<x[1] - y[1] - (IF b < 0 THEN 1 ELSE 0), b % Limb, c % Limb>>

\* x / 2^i, truncated
RECURSIVE XShr(_, _)
XShr(x, i) ==
  IF i >= 24 THEN XShr(<<x[1] \div Limb, x[1] % Limb, x[2]>>, i - 24)
  ELSE IF i = 0 THEN x
  ELSE LET p == 2^i
           q == Limb \div p
       IN  <<x[1] \div p, (x[1] % p) * q + (x[2] \div p), (x[2] % p) * q + (x[3] \div p)>>

\* x * 2^i, for i <= 24 and a result below 128
XShl(x, i) ==
  LET p == 2^i
      q == Limb \div p
  IN  <<x[1] * p + (x[2] \div q), (x[2] % q) * p + (x[3] \div q), (x[3] % q) * p>>

\* are the i lowest fraction bits of x all zero ?
RECURSIVE XLowZero(_, _)
XLowZero(x, i) ==
  IF i >= 24 THEN x[3] = 0 /\ XLowZero(<<x[1] \div Limb, x[1] % Limb, x[2]>>, i - 24)
  ELSE x[3] % (2^i) = 0

\* x / d truncated, for a natural 1 <= d < 128, with a fourth component that
\* is 1 when the division left a remainder
XDivSmall(x, d) ==
  LET tb == (x[1] % d) * Limb + x[2]
      tc == (tb % d) * Limb + x[3]
  IN  <<x[1] \div d, tb \div d, tc \div d, IF tc % d = 0 THEN 0 ELSE 1>>

\* ln(1 + 2^-i), i = 1..36, rounded to 72 fraction bits
LnTab ==
  << <<6802575, 11730529, 3132122>>, <<3743727, 9385268, 4413516>>, <<1976071, 7219954, 15067627>>,
     <<1017112, 6293681, 5451966>>, <<516262, 12819980, 12587838>>, <<260117, 1449856, 8157684>>,
     <<130562, 10924294, 7901123>>, <<65408, 5576072, 6160976>>, <<32736, 698028, 4430307>>,
     <<16376, 87317, 6430584>>, <<8190, 10918, 11211014>>, <<4095, 8389973, 1398920>>,
     <<2047, 14680234, 10922692>>, <<1023, 16252949, 5576022>>, <<511, 16646146, 11183787>>,
     <<255, 16744448, 5592341>>, <<127, 16769024, 699047>>, <<63, 16775168, 87381>>,
     <<31, 16776704, 10923>>, <<15, 16777088, 1365>>, <<7, 16777184, 171>>,
     <<3, 16777208, 21>>, <<1, 16777214, 3>>, <<0, 16777215, 8388608>>,
     <<0, 8388607, 14680064>>, <<0, 4194303, 16252928>>, <<0, 2097151, 16646144>>,
     <<0, 1048575, 16744448>>, <<0, 524287, 16769024>>, <<0, 262143, 16775168>>,
     <<0, 131071, 16776704>>, <<0, 65535, 16777088>>, <<0, 32767, 16777184>>,
     <<0, 16383, 16777208>>, <<0, 8191, 16777214>>, <<0, 4096, 0>> >>

\* ln(1 + 2^-i) for i = 1..72; beyond the table it is 2^-i to 72 bits
Ln1p(i) == IF i <= 36 THEN LnTab[i] ELSE XShr(XOne, i)

\* ln 2 to 96 fraction bits
Ln2 == <<11629079, 16241103, 7973833, 14922648>>

\* q * ln 2 for a natural q < 64, rounded to 72 fraction bits
QLn2(q) ==
  LET d == Ln2[4] * q
      c == Ln2[3] * q + (d \div Limb)
      b == Ln2[2] * q + (c \div Limb)
      r == <<Ln2[1] * q + (b \div Limb), b % Limb, c % Limb>>
  IN  IF d % Limb >= Limb \div 2 THEN XAdd(r, XUnit) ELSE r

\* ln m for a fixed-point m in [1, 2), by shift and add: z runs from 1 up to
\* m through the factors (1 + 2^-i) that fit, and y adds their logarithms.
\* s = <<z, y>>.
LnStep(m, s, i) ==
  LET t == XAdd(s[1], XShr(s[1], i))
  IN  IF XLeq(t, m) THEN <<t, XAdd(s[2], Ln1p(i))>> ELSE s

RECURSIVE LnMantFrom(_, _, _)
LnMantFrom(m, s, i) ==
  IF i > 72 THEN s[2]
  ELSE LET t == LnStep(m, LnStep(m, LnStep(m, LnStep(m, s, i), i + 1), i + 2), i + 3)
       IN  IF Force(t) THEN LnMantFrom(m, t, i + 4) ELSE s[2]

\* ln n for a natural 1 <= n < 2^24
LnNat(n) ==
  LET e == ILog2(n)
  IN  XAdd(QLn2(e), LnMantFrom(<<n * (Limb \div (2^e)), 0, 0>>, <<XOne, XZero>>, 1))

-----------------------------------------------------------------------------
(* Wide fixed-point numbers w = <<i, a, b, c>>: value                       *)
(* i + (a*Limb^2 + b*Limb + c)/2^72, for products such as 1024 * ln(..).    *)

XWiden(x) == <<x[1] \div Limb, x[1] % Limb, x[2], x[3]>>

WAdd(x, y) ==
  LET c == x[4] + y[4]
      b == x[3] + y[3] + (c \div Limb)
      a == x[2] + y[2] + (b \div Limb)
  IN  <<x[1] + y[1] + (a \div Limb), a % Limb, b % Limb, c % Limb>>

\* w * n for a natural n <= 64
WMulSmall(x, n) ==
  LET c == x[4] * n
      b == x[3] * n + (c \div Limb)
      a == x[2] * n + (b \div Limb)
  IN  <<x[1] * n + (a \div Limb), a % Limb, b % Limb, c % Limb>>

\* w * n for any natural n (n taken in base-64 digits)
RECURSIVE WMul(_, _)
WMul(x, n) ==
  IF n < 64 THEN WMulSmall(x, n)
  ELSE WAdd(WMulSmall(WMul(x, n \div 64), 64), WMulSmall(x, n % 64))

-----------------------------------------------------------------------------
(* The encoders.  Their argument is the double nearest to k/PScale; the     *)
(* quotient, the logarithm and the product are taken of the exact values    *)
(* and truncated at the end, which yields the same integer as the double    *)
(* arithmetic for every k in 1..PScale-1.  The intermediate value is a      *)
(* sign and a magnitude, or an infinity.                                    *)

Fin(neg, mag) == [inf |-> FALSE, neg |-> neg, mag |-> mag]
Inf(neg) == [inf |-> TRUE, neg |-> neg, mag |-> <<0, 0, 0, 0>>]

\* log( num / den ) for naturals num, den, not both 0: the quotient is +inf
\* when den = 0 and 0 when num = 0, and log gives +inf and -inf there.
Log(num, den) ==
  IF den = 0 THEN Inf(FALSE)
  ELSE IF num = 0 THEN Inf(TRUE)
  ELSE LET a == LnNat(num)
           b == LnNat(den)
       IN  IF XLeq(b, a) THEN Fin(FALSE, XWiden(XSub(a, b)))
           ELSE Fin(TRUE, XWiden(XSub(b, a)))

\* n * v for an integer constant n
Times(n, v) ==
  LET neg == (v.neg /= (n < 0))
  IN  IF v.inf THEN Inf(neg)
      ELSE Fin(neg, WMul(v.mag, IF n < 0 THEN -n ELSE n))

\* What a conversion of an out-of-range double to int yields is undefined;
\* the builds give the "integer indefinite" value INT_MIN (x86 cvttsd2si) or
\* the nearest int (saturating conversion, e.g. AArch64 fcvtzs).
ConvOutcomes == {"indefinite", "saturate"}

\* (int) floor(v): rounds toward minus infinity where (int) v truncates
FpToIntFloor(v, ub) ==
  IF v.inf
  THEN IF ub = "indefinite" \/ v.neg THEN IntMin ELSE IntMax
  ELSE IF v.neg
  THEN -(v.mag[1]) - (IF <<v.mag[2], v.mag[3], v.mag[4]>> = <<0, 0, 0>> THEN 0 ELSE 1)
  ELSE v.mag[1]

\* (int) v: truncation toward zero; ub names the build's result for an
\* infinity (the finite values met here are all within the range of int)
FpToInt(v, ub) ==
  IF v.inf
  THEN IF ub = "indefinite" \/ v.neg THEN IntMin ELSE IntMax
  ELSE IF v.neg THEN -(v.mag[1]) ELSE v.mag[1]

\* ef8 with the factor 12.0 in the place of -12.0
ef8Positive(p, ub) ==
  LET tmp == FpToInt(Times(12, Log(PScale - p, p)), ub)
      lo == IF tmp < -127 THEN -127 ELSE tmp
  IN  IF lo > 127 THEN 127 ELSE lo

\* static inline int8_t ef8(double p), p = k/PScale
ef8(p, ub) ==
  LET tmp == FpToInt(Times(-12, Log(PScale - p, p)), ub)
      lo == IF tmp < -127 THEN -127 ELSE tmp
  IN  IF lo > 127 THEN 127 ELSE lo

\* ef16 with the factor of ef8 left in
ef16Factor12(p, ub) ==
  LET tmp == FpToInt(Times(-12, Log(PScale - p, p)), ub)
      lo == IF tmp < -32767 THEN -32767 ELSE tmp
  IN  IF lo > 32767 THEN 32767 ELSE lo

\* static inline int16_t ef16(double p), p = k/PScale
ef16(p, ub) ==
  LET tmp == FpToInt(Times(-1024, Log(PScale - p, p)), ub)
      lo == IF tmp < -32767 THEN -32767 ELSE tmp
  IN  IF lo > 32767 THEN 32767 ELSE lo

-----------------------------------------------------------------------------
(* Positive values of type double: [m, e] is m * 2^e with a significand m   *)
(* in [1, 2) that has 52 fraction bits.                                     *)

Dbl(m, e) == [m |-> m, e |-> e]

\* m in [1, 2], with sticky = 1 when the true value lies above m: the
\* nearest number with 52 fraction bits, ties to even
RN53(m, sticky) ==
  LET p == 2^20
      lo == m[3] % p
      hi == m[3] \div p
      t == <<m[1], m[2], hi * p>>
      up == lo > p \div 2 \/ (lo = p \div 2 /\ (sticky = 1 \/ hi % 2 = 1))
  IN  IF up THEN XAdd(t, <<0, 0, p>>) ELSE t

\* a rounded significand that reached 2 is 1 with the next exponent
Norm(m, e) == IF XLeq(XTwo, m) THEN Dbl(XShr(m, 1), e + 1) ELSE Dbl(m, e)

\* (double) n for a natural 1 <= n < 2^24
IntToDbl(n) ==
  LET e == ILog2(n)
  IN  Dbl(<<n * (Limb \div (2^e)), 0, 0>>, e)

\* the double n / d for naturals 1 <= n < 128 and 1 <= d < 64
Quot(n, d) ==
  LET en == ILog2(n)
      ed == ILog2(d)
      e == en - ed - (IF n * (2^ed) < d * (2^en) THEN 1 ELSE 0)
      q == IF e >= 0 THEN XDivSmall(<<n * Limb, 0, 0>>, d * (2^e))
           ELSE XDivSmall(<<n * (2^(-e)) * Limb, 0, 0>>, d)
  IN  Norm(RN53(<<q[1], q[2], q[3]>>, q[4]), e)

\* x * 2^k for a double x
Scale2(x, k) == Dbl(x.m, x.e + k)

\* the value of a double below 64 as a fixed-point number, truncated
DblToX(x) == IF x.e >= 0 THEN XShl(x.m, x.e) ELSE XShr(x.m, -(x.e))

\* exp(r) for a fixed-point r in [0, ln 2), by shift and add: r loses the
\* logarithms ln(1 + 2^-i) that fit, and z gains their factors.
\* s = <<r, z>>.
ExpStep(s, i) ==
  IF XLeq(Ln1p(i), s[1])
  THEN <<XSub(s[1], Ln1p(i)), XAdd(s[2], XShr(s[2], i))>>
  ELSE s

RECURSIVE ExpFracFrom(_, _)
ExpFracFrom(s, i) ==
  IF i > 72 THEN s[2]
  ELSE LET t == ExpStep(ExpStep(ExpStep(ExpStep(s, i), i + 1), i + 2), i + 3)
       IN  IF Force(t) THEN ExpFracFrom(t, i + 4) ELSE s[2]

\* m in [1, 2): the numbers with 52 fraction bits at and right above m
RD53(m) == <<m[1], m[2], (m[3] \div 2^20) * 2^20>>
RU53(m) == XAdd(RD53(m), <<0, 0, 2^20>>)

\* The exp of the C library is not correctly rounded: its error is below one
\* unit in the last place, so its result is one of the two doubles that
\* enclose the value (for an argument other than 0 the value is no double).
LibmOutcomes == {"below", "above"}

\* the double of the two next to m that the library returns
Pick(m, r) == IF r = "above" THEN RU53(m) ELSE RD53(m)

\* exp(x) (neg = FALSE) or exp(-x) (neg = TRUE) for a double 0 < x < 64:
\* x = q ln 2 + r, exp(x) = 2^q exp(r), exp(-x) = 2^-(q+1) exp(ln 2 - r);
\* r names the double of the two that the library returns
Exp(neg, x, r) ==
  LET v == DblToX(x)
      q0 == v[1] \div Ln2[1]
      q1 == IF XLeq(QLn2(q0), v) THEN q0 ELSE q0 - 1
      q == IF XLeq(QLn2(q1 + 1), v) THEN q1 + 1 ELSE q1
  IN  IF neg
      THEN Norm(Pick(ExpFracFrom(<<XSub(QLn2(q + 1), v), XOne>>, 1), r), -(q + 1))
      ELSE Norm(Pick(ExpFracFrom(<<XSub(v, QLn2(q)), XOne>>, 1), r), q)

\* 1.0 + x for a double x
OnePlus(x) ==
  IF x.e > 60 THEN x
  ELSE IF x.e >= 0
  THEN LET t == XAdd(x.m, XShr(XOne, x.e))
       IN  IF XLeq(XTwo, t) THEN Norm(RN53(XShr(t, 1), 0), x.e + 1)
           ELSE Norm(RN53(t, 0), x.e)
  ELSE Norm(RN53(XAdd(XOne, XShr(x.m, -(x.e))),
                 IF XLowZero(x.m, -(x.e)) THEN 0 ELSE 1), 0)

\* 1.0 / x for a double x: 1/(m 2^e) = (2/m) 2^(-e-1), and the quotient 2/m
\* is taken bit by bit.  s = <<remainder, quotient>>.
DivStep(m, s) ==
  LET bit == XLeq(m, s[1])
      r == IF bit THEN XSub(s[1], m) ELSE s[1]
  IN  <<XAdd(r, r), XAdd(XAdd(s[2], s[2]), <<0, 0, IF bit THEN 1 ELSE 0>>)>>

RECURSIVE DivFrom(_, _, _)
DivFrom(m, s, j) ==
  IF j >= 56 THEN s
  ELSE LET t == DivStep(m, DivStep(m, DivStep(m, DivStep(m, s))))
       IN  IF Force(t) THEN DivFrom(m, t, j + 4) ELSE s

Recip(x) ==
  LET s == DivFrom(x.m, <<XTwo, XZero>>, 0)
  IN  Norm(RN53(XShl(s[2], 17), IF s[1] = XZero THEN 0 ELSE 1), -(x.e) - 1)

\* 1.0 - x for a double 0 < x < 1
RECURSIVE NormUp(_, _)
NormUp(m, e) ==
  IF m = XZero THEN Dbl(XZero, 0)
  ELSE IF m[1] = 0 THEN NormUp(<<m[2], m[3], 0>>, e - 24)
  ELSE LET k == 24 - ILog2(m[1])
       IN  Dbl(XShl(m, k), e - k)

OneMinus(x) ==
  LET k == -(x.e)
      exact == XLowZero(x.m, k)
      d == XSub(XOne, XShr(x.m, k))
      t == IF exact THEN d ELSE XSub(d, XUnit)
      n == NormUp(t, 0)
  IN  Norm(RN53(n.m, IF exact THEN 0 ELSE 1), n.e)

\* x <= y for doubles
DblLeq(x, y) ==
  IF x.m = XZero THEN TRUE
  ELSE IF y.m = XZero THEN FALSE
  ELSE x.e < y.e \/ (x.e = y.e /\ XLeq(x.m, y.m))

\* #define DF8(x) ( 1.0/(1.0+exp(((double) (x))/-12.0)) )
\* (exp(0) is 1); r is the outcome of exp
DF8(x, r) ==
  IF x = 0 THEN Recip(OnePlus(Dbl(XOne, 0)))
  ELSE Recip(OnePlus(Exp(x > 0, Quot(IF x < 0 THEN -x ELSE x, 12), r)))

\* #define DF16(x) ( 1.0/( 1.0 + exp((double) (x)/-1024.0) ))
DF16(x, r) ==
  IF x = 0 THEN Recip(OnePlus(Dbl(XOne, 0)))
  ELSE Recip(OnePlus(Exp(x > 0, Scale2(IntToDbl(IF x < 0 THEN -x ELSE x), -10), r)))

-----------------------------------------------------------------------------
(* Natural numbers of any size, for the digits of a number written in a     *)
(* string: sequences of limbs below NBase, the lowest limb first and the    *)
(* highest limb not 0; <<>> is 0.                                           *)

NBase == 2^15

\* The limbs of x * n + c and the carry out of them, for a sequence x of
\* limbs that is not empty and naturals 1 <= n <= NBase and c < NBase: the
\* low half of x, then the high half with the carry of the low half.
RECURSIVE NMulAddLimbs(_, _, _)
NMulAddLimbs(x, n, c) ==
  IF Len(x) = 1
  THEN LET t == x[1] * n + c
       IN  << <<t % NBase>>, t \div NBase>>
  ELSE LET h == Len(x) \div 2
           lo == NMulAddLimbs(SubSeq(x, 1, h), n, c)
           hi == NMulAddLimbs(SubSeq(x, h + 1, Len(x)), n, lo[2])
       IN  <<lo[1] \o hi[1], hi[2]>>

\* x * n + c
NMulAdd(x, n, c) ==
  IF x = <<>> THEN (IF c = 0 THEN <<>> ELSE <<c>>)
  ELSE LET r == NMulAddLimbs(x, n, c)
       IN  IF r[2] = 0 THEN r[1] ELSE Append(r[1], r[2])

\* x without the limbs that are 0 at its high end
NTrim(x) ==
  LET nz == {i \in DOMAIN x : x[i] /= 0}
  IN  IF nz = {} THEN <<>> ELSE SubSeq(x, 1, CHOOSE i \in nz : \A j \in nz : j <= i)

\* the limbs of x - y - bw and the borrow out of them, for sequences of
\* limbs of the same length that are not empty
RECURSIVE NSubLimbs(_, _, _)
NSubLimbs(x, y, bw) ==
  IF Len(x) = 1
  THEN LET t == x[1] - y[1] - bw
       IN  << <<t % NBase>>, IF t < 0 THEN 1 ELSE 0>>
  ELSE LET h == Len(x) \div 2
           lo == NSubLimbs(SubSeq(x, 1, h), SubSeq(y, 1, h), bw)
           hi == NSubLimbs(SubSeq(x, h + 1, Len(x)), SubSeq(y, h + 1, Len(y)), lo[2])
       IN  <<lo[1] \o hi[1], hi[2]>>

\* x - y for x >= y
NSub(x, y) ==
  IF x = <<>> THEN <<>>
  ELSE NTrim(NSubLimbs(x, [i \in DOMAIN x |-> IF i <= Len(y) THEN y[i] ELSE 0], 0)[1])

NLeq(x, y) ==
  IF Len(x) /= Len(y) THEN Len(x) < Len(y)
  ELSE LET diff == {i \in DOMAIN x : x[i] /= y[i]}
       IN  \/ diff = {}
           \/ LET i == CHOOSE k \in diff : \A j \in diff : j <= k
              IN  x[i] < y[i]

\* the number of bits of x
NBitLen(x) == IF x = <<>> THEN 0 ELSE 15 * (Len(x) - 1) + ILog2(x[Len(x)]) + 1

\* x * 2^k for x >= 1
NShl(x, k) == [i \in 1..(k \div 15) |-> 0] \o NMulAdd(x, 2^(k % 15), 0)

\* x * 10^k
RECURSIVE NTimesPow10(_, _)
NTimesPow10(x, k) ==
  IF k = 0 THEN x
  ELSE IF k <= 4 THEN NMulAdd(x, 10^k, 0)
  ELSE LET t == NTimesPow10(x, k \div 2)
       IN  IF Force(t) THEN NTimesPow10(t, k - (k \div 2)) ELSE x

\* x * 2^i for a fixed-point x, any i, and a result below 128
RECURSIVE XShlN(_, _)
XShlN(x, i) == IF i > 24 THEN XShlN(XShl(x, 24), i - 24) ELSE XShl(x, i)

\* n, or 0 for a negative n
Above(n) == IF n > 0 THEN n ELSE 0

\* The quotient a / b of naturals with b <= a < 2b, bit by bit.  A step takes
\* the doubled remainder r and the quotient bits q so far.
NDivBit(b, r, q) ==
  IF NLeq(b, r) THEN <<NSub(r, b), XAdd(XAdd(q, q), XUnit)>> ELSE <<r, XAdd(q, q)>>

\* s = <<remainder, quotient bits>>
NDivStep(b, s) == NDivBit(b, NMulAdd(s[1], 2, 0), s[2])

RECURSIVE NDivFrom(_, _, _)
NDivNext(b, t, j) == IF Force(t) THEN NDivFrom(b, t, j) ELSE t

NDivFrom(b, s, j) ==
  IF j >= 60 THEN s
  ELSE IF s[1] = <<>> THEN <<s[1], XShlN(s[2], 60 - j)>>
  ELSE NDivNext(b, NDivStep(b, NDivStep(b, NDivStep(b, NDivStep(b, s)))), j + 4)

\* [m, e, sticky] of the quotient bits s: m has 60 fraction bits, and sticky
\* is 1 when the division left a remainder
NBits(s, e) == [m |-> XShl(s[2], 12), e |-> e, sticky |-> IF s[1] = <<>> THEN 0 ELSE 1]

\* (a / b) 2^e for b <= a < 2b
NRatio(a, b, e) == NBits(NDivFrom(b, <<NSub(a, b), XUnit>>, 0), e)

\* (a / b) 2^e for a and b of the same number of bits
NAligned(a, b, e) ==
  NRatio(IF NLeq(b, a) THEN a ELSE NMulAdd(a, 2, 0), b, IF NLeq(b, a) THEN e ELSE e - 1)

\* A natural a >= 1 as [m, e, sticky], a = m 2^e, read off its five highest
\* limbs t; sticky is 1 when bits of a were cut from m.
NTop(a) ==
  LET n == Len(a)
      t == [i \in 1..5 |-> IF n - 5 + i >= 1 THEN a[n - 5 + i] ELSE 0]
      x == <<(t[4] \div 2^3) + t[5] * 2^12,
             (t[2] \div 2^9) + t[3] * 2^6 + (t[4] % 2^3) * 2^21,
             t[1] + (t[2] % 2^9) * 2^15>>
      p == 60 + ILog2(t[5])
      rest == \E i \in 1..(n - 5) : a[i] /= 0
      cut == p > 72 /\ ~XLowZero(x, p - 72)
  IN  [m |-> IF p > 72 THEN XShr(x, p - 72) ELSE XShl(x, 72 - p),
       e |-> NBitLen(a) - 1,
       sticky |-> IF rest \/ cut THEN 1 ELSE 0]

\* a / b for naturals a, b >= 1, as [m, e, sticky]: the quotient is m 2^e,
\* m in [1, 2), up to the bits cut from m
NQuot(a, b) ==
  IF b = <<1>> THEN NTop(a)
  ELSE NAligned(NShl(a, Above(NBitLen(b) - NBitLen(a))),
                NShl(b, Above(NBitLen(a) - NBitLen(b))),
                NBitLen(a) - NBitLen(b))

-----------------------------------------------------------------------------
(* Values of type double of either sign: [cls, neg, m, e] with cls "zero",  *)
(* "finite" (m * 2^e, m in [1, 2), e in -1074..1023), "inf" or "nan".       *)

Num(cls, neg, m, e) == [cls |-> cls, neg |-> neg, m |-> m, e |-> e]
Zero(neg) == Num("zero", neg, XZero, 0)
Infinity(neg) == Num("inf", neg, XZero, 0)
NaN(neg) == Num("nan", neg, XZero, 0)

\* the double nearest to m * 2^e, for m in [1, 2) and sticky = 1 when the
\* true value lies above m: 53 bits for a normal number, fewer below 2^-1022,
\* and an infinity from 2^1024 on; this is the rounding of the product of two
\* doubles
RoundDbl(neg, m, sticky, e) ==
  IF e > 1023 THEN Infinity(neg)
  ELSE IF e >= -1022
  THEN LET d == Norm(RN53(m, sticky), e)
       IN  IF d.e > 1023 THEN Infinity(neg) ELSE Num("finite", neg, d.m, d.e)
  ELSE IF e < -1080 THEN Zero(neg)
  ELSE LET k == -1022 - e
           t == RN53(XShr(m, k), IF sticky = 1 \/ ~XLowZero(m, k) THEN 1 ELSE 0)
           d == NormUp(t, -1022)
       IN  IF t = XZero THEN Zero(neg) ELSE Num("finite", neg, d.m, d.e)

\* the double that the library's strtod makes of m * 2^e, for m in [1, 2) and
\* sticky = 1 when the true value lies above m (round_and_return in glibc's
\* strtod): the nearest double from 2^-1022 on; below, the significand is cut
\* to 53 bits first and then rounded to the bits that a subnormal number
\* has, and of the bits cut the first one, 2^19 in m[3], is left out of the
\* second rounding
round_and_return(neg, m, sticky, e) ==
  IF e >= -1022 THEN RoundDbl(neg, m, sticky, e)
  ELSE IF e < -1075 THEN Zero(neg)
  ELSE RoundDbl(neg, RD53(m), IF sticky = 1 \/ m[3] % 2^19 /= 0 THEN 1 ELSE 0, e)

-----------------------------------------------------------------------------
(* Strings that the program parses are sequences of one-character strings.  *)

DecDigits == <<"0", "1", "2", "3", "4", "5", "6", "7", "8", "9">>
HexUpper == DecDigits \o <<"A", "B", "C", "D", "E", "F">>
HexLower == DecDigits \o <<"a", "b", "c", "d", "e", "f">>

\* the value of the digit ch in the given base, or -1
DigitVal(ch, base) ==
  LET hit == {i \in 1..base : HexUpper[i] = ch \/ HexLower[i] = ch}
  IN  IF hit = {} THEN -1 ELSE (CHOOSE i \in hit : TRUE) - 1

\* isspace in the C locale
Space == {" ", "\t", "\n", "", "\f", "\r"}

\* the letters that strtod compares without regard to case
Capitals == <<"A", "E", "F", "I", "N", "P", "X">>
Smalls == <<"a", "e", "f", "i", "n", "p", "x">>

ToLower(ch) ==
  IF \E i \in DOMAIN Capitals : Capitals[i] = ch
  THEN Smalls[CHOOSE i \in DOMAIN Capitals : Capitals[i] = ch]
  ELSE ch

\* the character at position i; the string ends in a NUL, written ""
At(s, i) == IF i \in DOMAIN s THEN s[i] ELSE ""

\* the lowest member of a set of positions that is not empty
First(S) == CHOOSE j \in S : \A k \in S : j <= k

\* the position after the white space at the start of s
SkipSpace(s) == First({j \in 1..(Len(s) + 1) : At(s, j) \notin Space})

\* the position after the digits that start at position i
RunEnd(s, i, base) == First({j \in i..(Len(s) + 1) : DigitVal(At(s, j), base) < 0})

\* does the word w stand at position i of s, in small or capital letters ?
Word(s, i, w) == \A k \in DOMAIN w : ToLower(At(s, i + k - 1)) = w[k]

\* v followed by the digits at the positions i .. j-1
RECURSIVE NDigits(_, _, _, _, _)
NDigits(s, i, j, base, v) ==
  IF i >= j THEN v
  ELSE IF j = i + 1 THEN NMulAdd(v, base, DigitVal(s[i], base))
  ELSE LET h == (i + j) \div 2
           t == NDigits(s, i, h, base, v)
       IN  IF Force(t) THEN NDigits(s, h, j, base, t) ELSE v

\* an exponent beyond ExpCap makes an infinity or a zero of every number
\* written with fewer than ExpCap digits
ExpCap == 10^6

\* the decimal digits at the positions i .. j-1 after v, as an int
RECURSIVE ExpDigits(_, _, _, _)
ExpDigits(s, i, j, v) ==
  IF i >= j THEN v
  ELSE IF j = i + 1 THEN (IF v >= ExpCap THEN v ELSE v * 10 + DigitVal(s[i], 10))
  ELSE LET h == (i + j) \div 2
           t == ExpDigits(s, i, h, v)
       IN  IF Force(t) THEN ExpDigits(s, h, j, t) ELSE v

\* the exponent part at position k: the letter, an optional sign and at
\* least one digit, the first of them at position i; 0 when there is none
ExponentAt(s, k, i, letter) ==
  IF ToLower(At(s, k)) = letter /\ RunEnd(s, i, 10) > i
  THEN (IF At(s, k + 1) = "-" THEN -1 ELSE 1) * ExpDigits(s, i, RunEnd(s, i, 10), 0)
  ELSE 0

Exponent(s, k, letter) ==
  ExponentAt(s, k, IF At(s, k + 1) \in {"+", "-"} THEN k + 2 ELSE k + 1, letter)

\* the double that strtod makes of q.m * 2^(q.e + e)
RoundQ(neg, q, e) == round_and_return(neg, q.m, q.sticky, q.e + e)

\* the double that strtod makes of n * 10^E, for a natural n >= 1; more is
\* TRUE when digits other than 0 were cut behind n
DecToDbl(neg, n, E, more) ==
  IF E >= 0 /\ NBitLen(n) - 1 + 3 * E >= 1024 THEN Infinity(neg)
  ELSE IF E < 0 /\ NBitLen(n) + 3 * E < -1080 THEN Zero(neg)
  ELSE RoundQ(neg, [NQuot(NTimesPow10(n, Above(E)), NTimesPow10(<<1>>, Above(-E)))
                      EXCEPT !.sticky = IF more THEN 1 ELSE @], 0)

\* the double that strtod makes of n * 2^E (base 16) or n * 10^E (base 10);
\* without a digit there is no decimal number and strtod returns 0.0, and
\* the hexadecimal number is the 0 before the x
Convert(neg, base, none, n, E, more) ==
  IF none THEN Zero(neg /\ base = 16)
  ELSE IF n = <<>> THEN Zero(neg)
  ELSE IF base = 16 THEN RoundQ(neg, NTop(n), E)
  ELSE DecToDbl(neg, n, E, more)

\* the places after the point that strtod reads of a decimal number
\* (MANT_DIG - MIN_EXP + 2 in glibc's strtod): a quarter of the last place of
\* the smallest double
FracDigits == 1076

\* the number with the digits d, the last of them at base^E (16^E as 2^E),
\* of which strtod cuts the last c
Kept(neg, base, d, E, c) ==
  Convert(neg, base, d = <<>>, NDigits(d, 1, Len(d) - c + 1, base, <<>>), E + c,
          \E x \in (Len(d) - c + 1)..Len(d) : d[x] /= "0")

\* the number with the digits d, the last of them at base^E (16^E as 2^E):
\* strtod cuts the digits of a decimal number behind the place FracDigits
Digits(neg, base, d, E) ==
  Kept(neg, base, d, E,
       IF base = 16 \/ -E <= FracDigits THEN 0
       ELSE IF -E - FracDigits >= Len(d) THEN Len(d)
       ELSE -E - FracDigits)

\* the number whose digits before the point are at i .. j-1 and whose
\* mantissa ends before k: the digits after the point are at j+1 .. k-1
Mantissa(neg, s, i, j, k, base) ==
  Digits(neg, base, SubSeq(s, i, j - 1) \o SubSeq(s, j + 1, k - 1),
         Exponent(s, k, IF base = 16 THEN "p" ELSE "e")
           - (IF base = 16 THEN 4 ELSE 1) * Above(k - j - 1))

\* the digits before the point are at i .. j-1
Pointed(neg, s, i, j, base) ==
  Mantissa(neg, s, i, j, IF At(s, j) = "." THEN RunEnd(s, j + 1, base) ELSE j, base)

\* a number at position i: digits, a point and digits, an exponent
Number(neg, s, i, base) == Pointed(neg, s, i, RunEnd(s, i, base), base)

\* what strtod reads at position i, after the sign: inf, nan, a hexadecimal
\* number after 0x, or a decimal number
Unsigned(neg, s, i) ==
  IF Word(s, i, <<"i", "n", "f">>) THEN Infinity(neg)
  ELSE IF Word(s, i, <<"n", "a", "n">>) THEN NaN(neg)
  ELSE Number(neg, s,
              IF At(s, i) = "0" /\ ToLower(At(s, i + 1)) = "x" THEN i + 2 ELSE i,
              IF At(s, i) = "0" /\ ToLower(At(s, i + 1)) = "x" THEN 16 ELSE 10)

\* what strtod reads at position i, after the white space
Signed(s, i) == Unsigned(At(s, i) = "-", s, IF At(s, i) \in {"+", "-"} THEN i + 1 ELSE i)

\* strtod(s, 0) and atof(s): white space, an optional sign, then inf, nan, a
\* hexadecimal or a decimal number; what follows the number is ignored
strtod(s) == Signed(s, SkipSpace(s))

\* an int is two halves of 16 bits
Half == 2^16

\* is (int) v defined: the value of v without its fraction is an int
InIntRange(v) ==
  \/ v.cls = "zero"
  \/ v.cls = "finite" /\ v.e <= 30
  \/ v.cls = "finite" /\ v.neg /\ v.e = 31 /\ XShr(v.m, 41) = <<0, 128, 0>>

\* (int) v: truncation toward zero when the value is in range, and otherwise
\* the result of the build (ConvOutcomes; a saturating conversion of a NaN
\* gives 0)
ToInt(v, ub) ==
  IF InIntRange(v)
  THEN IF v.cls = "zero" \/ v.e < 0 THEN 0
       ELSE IF v.e = 31 THEN IntMin
       ELSE LET t == XShr(v.m, 72 - v.e)
            IN  IF v.neg THEN (0 - t[2]) * Limb - t[3] ELSE t[2] * Limb + t[3]
  ELSE IF v.cls = "nan" THEN (IF ub = "indefinite" THEN IntMin ELSE 0)
  ELSE IF ub = "indefinite" \/ v.neg THEN IntMin ELSE IntMax

\* the double nearest to w * 2^(e - k) for a wide w in [2^k, 2^(k+1))
WRound(neg, w, k, e) ==
  RoundDbl(neg,
           <<w[1] * 2^(24 - k) + (w[2] \div 2^k),
             (w[2] % 2^k) * 2^(24 - k) + (w[3] \div 2^k),
             (w[3] % 2^k) * 2^(24 - k) + (w[4] \div 2^k)>>,
           IF w[4] % 2^k = 0 THEN 0 ELSE 1, e + k)

\* the double nearest to w * 2^e for a wide w in [2^13, 2^15)
WToDbl(neg, w, e) == WRound(neg, w, IF w[1] >= 2^14 THEN 14 ELSE 13, e)

\* v * 1e6 for a double v: 1e6 = 15625 * 2^6, and the product is rounded
TimesMega(v) ==
  IF v.cls /= "finite" THEN v ELSE WToDbl(v.neg, WMul(XWiden(v.m), 15625), v.e + 6)

-----------------------------------------------------------------------------
(* The program state.                                                       *)

VARIABLES
  pc,          \* the statement of main that runs next, or "done" / "exit"
  argv,        \* the command line: option name -> argument given
  opts,        \* rfmix_opts
  stderr,      \* what was written to stderr
  calls,       \* the stages called so far, in order
  rfmix_input, \* the input_t pointer of main
  srand_seed,  \* the seed srand was called with
  status,      \* the exit status once the process ended
  job,         \* codec: what is stored, a probability or a code
  width,       \* codec: 8 or 16
  p,           \* codec: the pair of probabilities to encode
  code,        \* codec: the pair of stored codes
  prob,        \* codec: the pair of decoded probabilities
  n_windows,   \* input_t.n_windows
  n_subpops,   \* input_t.n_subpops
  buffer       \* a current_p / est_p array: position -> <<window, subpop>>

runVars == <<pc, argv, opts, stderr, calls, rfmix_input, srand_seed, status>>
codecVars == <<job, width, p, code, prob>>
indexVars == <<n_windows, n_subpops, buffer>>
vars == <<pc, argv, opts, stderr, calls, rfmix_input, srand_seed, status,
          job, width, p, code, prob, n_windows, n_subpops, buffer>>

\* a null char pointer; every other string is a sequence of characters
Null == <<"(null)">>
\* the statements of main, in order
Main ==
  <<"init_options", "cmdline_getoptions", "verify_options", "load_input",
    "random_forest", "crf", "msp_output", "fb_output",
    "fb_stay_in_state_output", "free_input">>

\* the statement after s when msp_output and crf are called the other way
\* round
AfterSwapped(s) ==
  LET swapped == [k \in DOMAIN Main |->
                    IF Main[k] = "crf" THEN "msp_output"
                    ELSE IF Main[k] = "msp_output" THEN "crf" ELSE Main[k]]
      i == CHOOSE k \in DOMAIN Main : swapped[k] = s
  IN  IF i = Len(Main) THEN "done" ELSE swapped[i + 1]

\* the statement after s, or "done" for the return
After(s) ==
  LET i == CHOOSE k \in DOMAIN Main : Main[k] = s
  IN  IF i = Len(Main) THEN "done" ELSE Main[i + 1]

-----------------------------------------------------------------------------
(* The command line.  argv maps the long name of each option given to its   *)
(* argument: a string for OPT_STR, an integer for OPT_INT, thousandths for  *)
(* --max-missing, TRUE for a flag.  The OPT_DBL options whose target is     *)
(* declared int carry no value here (see cmdline_getoptions).               *)

MaxDev == 2

Required ==
  {"query-file", "reference-file", "sample-map", "genetic-map", "output-basename", "chromosome"}

Given == "(given)"

\* the required options and nothing else
RequiredOnly ==
  [o \in Required |->
     IF o = "chromosome" THEN <<"c", "h", "r", "1">> ELSE <<"a", ".", "v", "c", "f">>]

\* the required options and the window size
Typical ==
  [o \in Required \cup {"rf-window-size"} |->
     IF o = "rf-window-size" THEN Given ELSE RequiredOnly[o]]

NoOptions == <<>>

Bases == {RequiredOnly, Typical, NoOptions}

DefaultSeed == <<"0", "x", "D", "E", "A", "D", "B", "E", "E", "F">>
Clock == <<"c", "l", "o", "c", "k">>

\* option settings that the bases are varied by
Deviations ==
  << <<"query-file", <<>> >>, <<"reference-file", <<>> >>, <<"sample-map", <<>> >>,
     <<"genetic-map", <<>> >>, <<"output-basename", <<>> >>, <<"chromosome", <<>> >>,
     <<"max-missing", -1>>, <<"max-missing", 1001>>,
     <<"rf-window-size", Given>>, <<"crf-spacing", Given>>, <<"generations", Given>>,
     <<"trees", 9>>,
     <<"em-iterations", 3>>,
     <<"reanalyze-reference", TRUE>>,
     <<"bootstrap-mode", -1>>, <<"bootstrap-mode", 3>>,
     <<"rf-minimum-snps", 5>>,
     <<"analyze-range", <<"1", "-", "2">> >>, <<"analyze-range", <<"5">> >>,
     <<"analyze-range", <<"4", ".", "1", "-", "8", ".", "2">> >>,
     <<"analyze-range", <<"3", "0", "0", "0", "-", "4", "0", "0", "0">> >>,
     <<"n-threads", 0>>,
     <<"random-seed", Clock>>,
     <<"random-seed", <<" ", "4", "2">> >>,
     <<"random-seed", <<"1", "e", "3">> >>,
     <<"random-seed", <<"0", "x", "1", "0">> >>,
     <<"random-seed", <<"-", "1">> >>,
     <<"random-seed", <<"2", "1", "4", "7", "4", "8", "3", "6", "4", "8">> >>,
     <<"random-seed", <<"0", "x", "F", "F", "F", "F", "F", "F", "F", "F">> >> >>

\* the sets of at most k deviations, as sets of positions in Deviations
RECURSIVE DevSets(_)
DevSets(k) ==
  IF k = 0 THEN {{}}
  ELSE LET S == DevSets(k - 1)
       IN  S \cup {s \cup {i} : s \in S, i \in DOMAIN Deviations}

\* no option twice
Consistent(D) == \A i, j \in D : Deviations[i][1] = Deviations[j][1] => i = j

Apply(base, D) ==
  LET named == {Deviations[i][1] : i \in D}
      at(o) == CHOOSE i \in D : Deviations[i][1] = o
  IN  [o \in DOMAIN base \cup named |->
         IF o \in named THEN Deviations[at(o)][2] ELSE base[o]]

Argvs == {Apply(base, D) : base \in Bases, D \in {E \in DevSets(MaxDev) : Consistent(E)}}

-----------------------------------------------------------------------------
(* rfmix_opts.  The fields rfmix_opts_t declares have their declared type   *)
(* (n_generations, rf_window_size and crf_spacing are int); the fields that *)
(* only rfmix.cpp names have the type of their option.  The double          *)
(* maximum_missing_data_freq is held in thousandths.                        *)

\* the global before main runs: static storage is zero
ZeroOpts ==
  [qvcf_fname |-> Null, rvcf_fname |-> Null, genetic_fname |-> Null,
   class_fname |-> Null, output_basename |-> Null,
   maximum_missing_data_freq |-> 0, n_generations |-> 0, rf_window_size |-> 0,
   crf_spacing |-> 0, generations |-> 0, n_trees |-> 0, reanalyze_reference |-> 0,
   bootstrap_mode |-> 0, em_iterations |-> 0, minimum_snps |-> 0,
   analyze_str |-> Null, analyze_range |-> <<0, 0>>,
   n_threads |-> 0, chromosome |-> Null, random_seed_str |-> Null, random_seed |-> 0]

\* a double constant num/den assigned to an int field: the fraction is dropped
IntOf(num, den) == num \div den

\* what sysconf(_SC_NPROCESSORS_CONF) may return (-1 is its error value)
NProcs == {-1, 4}

\* what time(NULL) may return
ClockTimes == {1700000000, 1700000001}

\* what an int may hold after a double was stored over it
IntSamples == {-1, 0, 7}

\* #define N_RF_BOOTSTRAP (random-forest.h): the number of bootstrap modes
N_RF_BOOTSTRAP == 3

\* static void init_options(void)
init_options ==
  /\ pc = "init_options"
  /\ \E n \in NProcs :
       opts' = [opts EXCEPT
                  !.qvcf_fname = <<>>, !.rvcf_fname = <<>>, !.genetic_fname = <<>>,
                  !.class_fname = <<>>, !.output_basename = <<>>,
                  !.maximum_missing_data_freq = 50,
                  !.rf_window_size = IntOf(2, 10),
                  !.crf_spacing = IntOf(1, 10),
                  !.n_generations = 8,
                  !.n_trees = 100,
                  !.bootstrap_mode = 1,
                  !.em_iterations = 0,
                  !.minimum_snps = 10,
                  !.analyze_str = <<>>,
                  !.analyze_range = <<IntMin, IntMax>>,
                  !.n_threads = n,
                  !.chromosome = <<>>,
                  !.random_seed_str = DefaultSeed]
  /\ pc' = After(pc)
  /\ UNCHANGED <<argv, stderr, calls, rfmix_input, srand_seed, status, codecVars, indexVars>>

\* the option table: long name -> the field its argument is stored in
Target ==
  [o \in {"query-file", "reference-file", "sample-map", "genetic-map",
          "output-basename", "max-missing", "rf-window-size", "crf-spacing",
          "generations", "trees", "em-iterations", "reanalyze-reference",
          "bootstrap-mode", "rf-minimum-snps", "analyze-range", "n-threads",
          "chromosome", "random-seed"} |->
     CASE o = "query-file" -> "qvcf_fname"
       [] o = "reference-file" -> "rvcf_fname"
       [] o = "sample-map" -> "class_fname"
       [] o = "genetic-map" -> "genetic_fname"
       [] o = "output-basename" -> "output_basename"
       [] o = "max-missing" -> "maximum_missing_data_freq"
       [] o = "rf-window-size" -> "rf_window_size"
       [] o = "crf-spacing" -> "crf_spacing"
       [] o = "generations" -> "n_generations"
       [] o = "trees" -> "n_trees"
       [] o = "em-iterations" -> "em_iterations"
       [] o = "reanalyze-reference" -> "reanalyze_reference"
       [] o = "bootstrap-mode" -> "bootstrap_mode"
       [] o = "rf-minimum-snps" -> "minimum_snps"
       [] o = "analyze-range" -> "analyze_str"
       [] o = "n-threads" -> "n_threads"
       [] o = "chromosome" -> "chromosome"
       [] o = "random-seed" -> "random_seed_str"]

\* the OPT_DBL options whose target rfmix_opts_t declares int, and the int
\* field declared right after the target: a store of a double (8 bytes) at
\* the target (4 bytes) runs over both
DblOverInt ==
  [o \in {"generations", "rf-window-size", "crf-spacing"} |->
     CASE o = "generations" -> {"n_generations", "rf_window_size"}
       [] o = "rf-window-size" -> {"rf_window_size", "crf_spacing"}
       [] o = "crf-spacing" -> {"crf_spacing", "generations"}]

\* the fields some given OPT_DBL option runs over
Clobbered(a) == UNION {DblOverInt[o] : o \in DOMAIN a \cap DOMAIN DblOverInt}

\* the fields that take the argument of a given option as it is
Stored(a) == {Target[o] : o \in DOMAIN a \ DOMAIN DblOverInt}

OptionOf(a, f) == CHOOSE o \in DOMAIN a : Target[o] = f

\* cmdline_getoptions(options, argc, argv): every option given stores its
\* argument in its target.  Storing a double in a field declared int is
\* undefined; it leaves some int in each field the store runs over.
cmdline_getoptions ==
  /\ pc = "cmdline_getoptions"
  /\ \E junk \in [Clobbered(argv) -> IntSamples] :
       opts' = [f \in DOMAIN opts |->
                  IF f \in Clobbered(argv) THEN junk[f]
                  ELSE IF f \in Stored(argv)
                  THEN IF f = "reanalyze_reference" THEN 1 ELSE argv[OptionOf(argv, f)]
                  ELSE opts[f]]
  /\ pc' = After(pc)
  /\ UNCHANGED <<argv, stderr, calls, rfmix_input, srand_seed, status, codecVars, indexVars>>

\* the messages of the checks that fail, in the order of verify_options,
\* from a list of <<condition, message>>
RECURSIVE Failing(_)
Failing(checks) ==
  IF checks = <<>> THEN <<>>
  ELSE (IF checks[1][1] THEN <<checks[1][2]>> ELSE <<>>) \o Failing(Tail(checks))

\* lines 94-140: the file names and the tunable parameters
ParameterChecks(o) ==
  << <<o.qvcf_fname = <<>>, "Specify query/admixed VCF input file with -f option">>,
     <<o.rvcf_fname = <<>>, "Specify reference VCF input file with -r option">>,
     <<o.genetic_fname = <<>>, "Specify genetic map file with -g option">>,
     <<o.class_fname = <<>>, "Specify reference sample subpopulation mapping with -m option">>,
     <<o.output_basename = <<>>, "Specify output files basename (prefix) with -o option">>,
     <<o.maximum_missing_data_freq < 0 \/ o.maximum_missing_data_freq > 1000,
       "Range for --max-missing option is 0.0 to 1.0">>,
     <<o.rf_window_size <= 0, "Random Forest window size must be greater than 0">>,
     <<o.crf_spacing <= 0, "Conditional random field size must be larger than 0">>,
     <<o.n_generations < 0,
       "Number of generations since putative admixture must be larger than 0.">>,
     <<o.n_trees < 10, "Number of random forest trees must be at least 10">>,
     <<o.bootstrap_mode < 0 \/ o.bootstrap_mode >= N_RF_BOOTSTRAP,
       "Bootstrap mode (-b) out of valid range - see manual">> >>

\* strsep(&end, "-"): the position of the first "-" in s, or 0
Dash(s) ==
  LET hits == {i \in DOMAIN s : s[i] = "-"}
  IN  IF hits = {} THEN 0 ELSE CHOOSE i \in hits : \A j \in hits : i <= j

\* (int) (atof(s) * 1e6)
Position(s, ub) == ToInt(TimesMega(strtod(s)), ub)

\* the range from the strings before and after the "-" at position d
RangeAt(s, d, ub) ==
  <<Position(SubSeq(s, 1, d - 1), ub), Position(SubSeq(s, d + 1, Len(s)), ub)>>

\* lines 141-155: the range to analyze; <<analyze_range, messages>>
AnalyzeRange(o, ub) ==
  IF o.analyze_str = <<>> THEN <<o.analyze_range, <<>> >>
  ELSE IF Dash(o.analyze_str) = 0
  THEN <<o.analyze_range, <<"Invalid physical range to analyze (--analyze-range)">> >>
  ELSE <<RangeAt(o.analyze_str, Dash(o.analyze_str), ub),
         <<"NOTICE: Analysis restricted to positions in range">> >>

\* lines 158-161
ChromosomeCheck(o) ==
  << <<o.chromosome = <<>>, "Specify VCF chromosome to analyze with -c option">> >>

\* the messages that set stop = 1, when the branch of the malformed range
\* does not set it
ErrorsButRange(o) == Failing(ParameterChecks(o)) \o Failing(ChromosomeCheck(o))

\* the messages that set stop = 1
Errors(o) ==
  Failing(ParameterChecks(o))
    \o (IF o.analyze_str /= <<>> /\ Dash(o.analyze_str) = 0
        THEN <<"Invalid physical range to analyze (--analyze-range)">> ELSE <<>>)
    \o Failing(ChromosomeCheck(o))

\* lines 141-176 of verify_options, with the range and its message, the
\* seed, and stop as they come out of the checks
Checked(range, seed, stop) ==
  /\ opts' = [opts EXCEPT
               !.analyze_range = range[1],
               !.n_threads = IF @ < 1 THEN 1 ELSE @,
               !.random_seed = seed]
  /\ srand_seed' = seed
  /\ stderr' = stderr \o Failing(ParameterChecks(opts)) \o range[2]
                 \o Failing(ChromosomeCheck(opts))
                 \o (IF stop
                     THEN <<"Correct command line errors to run rfmix. Run program with no options for help">>
                     ELSE <<>>)
  /\ pc' = IF stop THEN "exit" ELSE After(pc)
  /\ status' = IF stop THEN <<255>> ELSE status

\* static void verify_options(void); exit(-1) ends the process with status 255
verify_options ==
  /\ pc = "verify_options"
  /\ \E ub \in ConvOutcomes :
       \E now \in IF opts.random_seed_str = Clock THEN ClockTimes ELSE {0} :
         Checked(AnalyzeRange(opts, ub),
                   IF opts.random_seed_str = Clock THEN now
                   ELSE ToInt(strtod(opts.random_seed_str), ub),
                   Errors(opts) /= <<>>)
  /\ UNCHANGED <<argv, calls, rfmix_input, codecVars, indexVars>>

\* fprintf(stderr,"\n"); input_t *rfmix_input = load_input();
load_input ==
  /\ pc = "load_input"
  /\ stderr' = Append(stderr, "")
  /\ calls' = Append(calls, pc)
  /\ rfmix_input' = "loaded"
  /\ pc' = After(pc)
  /\ UNCHANGED <<argv, opts, srand_seed, status, codecVars, indexVars>>

\* a stage that takes rfmix_input: it runs to its end before main goes on
Stage(s) ==
  /\ pc = s
  /\ calls' = Append(calls, s)
  /\ pc' = After(pc)
  /\ UNCHANGED <<argv, opts, stderr, rfmix_input, srand_seed, status, codecVars, indexVars>>

random_forest == Stage("random_forest")
crf == Stage("crf")
msp_output == Stage("msp_output")
fb_output == Stage("fb_output")
fb_stay_in_state_output == Stage("fb_stay_in_state_output")

\* free_input(rfmix_input); return 0;
free_input ==
  /\ pc = "free_input"
  /\ calls' = Append(calls, pc)
  /\ rfmix_input' = "freed"
  /\ status' = <<0>>
  /\ pc' = After(pc)
  /\ UNCHANGED <<argv, opts, stderr, srand_seed, codecVars, indexVars>>

\* the state main starts in
RunInit ==
  /\ pc = Main[1]
  /\ argv \in Argvs
  /\ opts = ZeroOpts
  /\ stderr = <<>>
  /\ calls = <<>>
  /\ rfmix_input = "unset"
  /\ srand_seed = 1
  /\ status = <<>>

-----------------------------------------------------------------------------
(* The codecs at work: a pair of probabilities is encoded into a pair of    *)
(* codes (the arrays est_p and current_p of sample_t hold such codes), and  *)
(* codes are decoded when they are read back.                               *)

NGrid == 120
NCodes == 60

GridStep == (PScale - 60) \div NGrid
CodeStep == 32767 \div NCodes

\* probabilities in micro-units: a grid over [0.00003, 0.99997], the ends of
\* [0, 1], and values around 0.5 where neighbouring codes are widest apart
Points ==
  {30 + j * GridStep : j \in 0..NGrid}
    \cup {0, 1, 2, 25, 29, 30, 31, 1000, 250000, 333333, 479179, 479180, 479500,
          499755, 499756, 499757, 499999, 500000}

PPairs ==
  {<<30 + j * GridStep, 30 + (j + 1) * GridStep>> : j \in 0..(NGrid - 1)}
    \cup {<<q, PScale - q>> : q \in {k \in Points : k <= PScale - k}}
    \cup {<<PScale - q, q>> : q \in {k \in Points : k > PScale - k}}

Codes16 == {j * CodeStep : j \in 0..NCodes} \cup 0..24 \cup {32766, 32767}

CodePairs(w) ==
  IF w = 8
  THEN {<<c, c + 1>> : c \in -127..126} \cup {<<-c, c>> : c \in 0..127}
  ELSE {<<-c, c>> : c \in Codes16}
         \cup {<<c, c + 1>> : c \in Codes16 \ {32767}}
         \cup {<<-c - 1, -c>> : c \in Codes16 \ {32767}}

CodecInit ==
  /\ width \in {8, 16}
  /\ prob = <<>>
  /\ \/ job = "encode" /\ p \in PPairs /\ code = <<>>
     \/ job = "decode" /\ p = <<>> /\ code \in CodePairs(width)

Encode8 ==
  /\ job = "encode" /\ width = 8
  /\ \E ub \in ConvOutcomes : code' = <<ef8(p[1], ub), ef8(p[2], ub)>>
  /\ job' = "decode"
  /\ UNCHANGED <<width, p, prob, runVars, indexVars>>

Encode16 ==
  /\ job = "encode" /\ width = 16
  /\ \E ub \in ConvOutcomes : code' = <<ef16(p[1], ub), ef16(p[2], ub)>>
  /\ job' = "decode"
  /\ UNCHANGED <<width, p, prob, runVars, indexVars>>

Decode8 ==
  /\ job = "decode" /\ width = 8
  /\ \E libm \in [{code[1], code[2]} -> LibmOutcomes] :
       prob' = <<DF8(code[1], libm[code[1]]), DF8(code[2], libm[code[2]])>>
  /\ job' = "end"
  /\ UNCHANGED <<width, p, code, runVars, indexVars>>

Decode16 ==
  /\ job = "decode" /\ width = 16
  /\ \E libm \in [{code[1], code[2]} -> LibmOutcomes] :
       prob' = <<DF16(code[1], libm[code[1]]), DF16(code[2], libm[code[2]])>>
  /\ job' = "end"
  /\ UNCHANGED <<width, p, code, runVars, indexVars>>

-----------------------------------------------------------------------------
(* The flattened arrays: n_windows * n_subpops entries, entry IDX(w, s) for *)
(* window w and subpopulation s.  buffer maps each position written to the  *)
(* set of <<w, s>> that were stored there.  The functions that use IDX are  *)
(* not part of the sources: the subpopulations they index with are the      *)
(* identifiers of the reference classes, 1 through K = n_subpops.           *)

MaxWindows == 3
MaxSubpops == 3

\* #define IDX(w,s) ( (w)*n_subpops + (s) )
IDX(w, s) == w * n_subpops + s

\* the identifiers of the reference subpopulations: 1 through K
Subpops == 1..n_subpops

IndexInit ==
  /\ n_windows \in 1..MaxWindows
  /\ n_subpops \in 1..MaxSubpops
  /\ buffer = <<>>

\* current_p[hap][ IDX(crf_window, subpop) ] = ..
Store ==
  \E w \in 0..(n_windows - 1), s \in Subpops :
    /\ buffer' = [i \in DOMAIN buffer \cup {IDX(w, s)} |->
                    IF i = IDX(w, s)
                    THEN (IF i \in DOMAIN buffer THEN buffer[i] ELSE {}) \cup {<<w, s>>}
                    ELSE buffer[i]]
    /\ buffer' /= buffer
    /\ UNCHANGED <<n_windows, n_subpops, runVars, codecVars>>

-----------------------------------------------------------------------------
(* Specifications: a run of main; the codecs; the flattened arrays.         *)

Idle ==
  /\ pc = "done" /\ argv = <<>> /\ opts = ZeroOpts /\ stderr = <<>> /\ calls = <<>>
  /\ rfmix_input = "unset" /\ srand_seed = 1 /\ status = <<>>

NoCodec == job = "end" /\ width = 8 /\ p = <<>> /\ code = <<>> /\ prob = <<>>

NoIndex == n_windows = 1 /\ n_subpops = 1 /\ buffer = <<>>

Init == RunInit /\ NoCodec /\ NoIndex

Next ==
  \/ init_options
  \/ cmdline_getoptions
  \/ verify_options
  \/ load_input
  \/ random_forest
  \/ crf
  \/ msp_output
  \/ fb_output
  \/ fb_stay_in_state_output
  \/ free_input

Spec == Init /\ [][Next]_vars

CodecNext == Encode8 \/ Encode16 \/ Decode8 \/ Decode16

CodecStart == CodecInit /\ Idle /\ NoIndex

CodecSpec == CodecStart /\ [][CodecNext]_vars

IndexNext == Store

IndexStart == IndexInit /\ Idle /\ NoCodec

IndexSpec == IndexStart /\ [][IndexNext]_vars

-----------------------------------------------------------------------------
(* Properties of a run of main (Spec).                                      *)

Verified == pc \notin {"init_options", "cmdline_getoptions", "verify_options"}

Range(s) == {s[i] : i \in DOMAIN s}

Outputs == {"msp_output", "fb_output", "fb_stay_in_state_output"}

\* some check of verify_options fails on the configuration o
Rejected(o) ==
  \/ o.qvcf_fname = <<>> \/ o.rvcf_fname = <<>> \/ o.genetic_fname = <<>>
  \/ o.class_fname = <<>> \/ o.output_basename = <<>> \/ o.chromosome = <<>>
  \/ o.maximum_missing_data_freq < 0 \/ o.maximum_missing_data_freq > 1000
  \/ o.rf_window_size < 1
  \/ o.crf_spacing < 1
  \/ o.n_generations < 0
  \/ o.n_trees < 10
  \/ o.bootstrap_mode \notin 0..(N_RF_BOOTSTRAP - 1)
  \/ (o.analyze_str /= <<>> /\ "-" \notin Range(o.analyze_str))

\* C1: a run whose configuration fails a check of verify_options ends in
\* exit with an error status, and load_input, random_forest, crf and the
\* output routines are never called in it.
C1_InvalidConfigurationExits ==
  (Verified /\ Rejected(opts)) =>
     /\ pc = "exit"
     /\ status /= <<>> /\ status /= <<0>>
     /\ calls = <<>>
     /\ rfmix_input = "unset"

C1_Witness ==
  /\ pc = "exit"
  /\ opts.n_trees = 9
  /\ opts.qvcf_fname /= <<>>
  /\ calls = <<>>

\* every call of b comes after a call of a
Before(a, b) ==
  \A i \in DOMAIN calls : calls[i] = b => \E j \in 1..(i - 1) : calls[j] = a

\* C6: the forest-train/CRF-smooth rounds go on until the EM-iteration cap
\* is reached: a run that passed validation and is done has executed at
\* least em_iterations rounds.
C6_RoundsReachCap ==
  pc = "done" =>
     Cardinality({i \in DOMAIN calls : calls[i] = "crf"}) >= opts.em_iterations

\* C7: load_input comes before random_forest, random_forest before crf, crf
\* before every output routine, and free_input after all three output
\* routines and as the last call.
C7_StagesInOrder ==
  /\ Before("load_input", "random_forest")
  /\ Before("random_forest", "crf")
  /\ \A out \in Outputs : Before("crf", out) /\ Before(out, "free_input")
  /\ \A i \in DOMAIN calls : calls[i] = "free_input" => i = Len(calls)
  /\ \A i, j \in DOMAIN calls : calls[i] = calls[j] => i = j
  /\ rfmix_input = "loaded" <=> (calls /= <<>> /\ "free_input" \notin Range(calls))

C7_Witness ==
  /\ pc = "done"
  /\ status = <<0>>
  /\ Range(calls) = {"load_input", "random_forest", "crf", "free_input"} \cup Outputs

\* C9: a run given the required options and nothing else passes
\* verify_options, with rf_window_size 0.2, crf_spacing 0.1, n_generations 8,
\* n_trees 100 and max-missing 0.05.
C9_DefaultsPass ==
  (Verified /\ argv = RequiredOnly) =>
     /\ pc /= "exit"
     /\ opts.rf_window_size * 10 = 2
     /\ opts.crf_spacing * 10 = 1
     /\ opts.n_generations = 8
     /\ opts.n_trees = 100
     /\ opts.maximum_missing_data_freq = 50

\* the whole part of |v| for a double below 2^32, as two halves of 16 bits
Halves(v) ==
  IF v.cls = "zero" \/ v.e < 0 THEN <<0, 0>>
  ELSE LET t == XShr(v.m, 72 - v.e)
       IN  <<t[2] * 2^8 + (t[3] \div Half), t[3] % Half>>

\* the int seed holds the number v, of 32 bits at most: as a signed value,
\* or, for a v from 2^31 on, as its 32 bits
Holds(seed, v) ==
  /\ v.cls \in {"zero", "finite"}
  /\ v.cls = "finite" => v.e <= 31
  /\ IF v.neg THEN InIntRange(v) /\ seed = (0 - Halves(v)[1]) * Half - Halves(v)[2]
     ELSE (seed \div Half) % Half = Halves(v)[1] /\ seed % Half = Halves(v)[2]

\* C10: when the seed string is not "clock", random_seed is the integer the
\* string denotes, so different 32-bit values give different seeds, and the
\* default 0xDEADBEEF is stored without overflow.
C10_SeedIsDenotedInteger ==
  (Verified /\ opts.random_seed_str /= Clock) =>
     Holds(opts.random_seed, strtod(opts.random_seed_str))

-----------------------------------------------------------------------------
(* Properties of the codecs (CodecSpec).                                    *)

Lowest == IF width = 8 THEN -127 ELSE -32767
Highest == IF width = 8 THEN 127 ELSE 32767

Encoded == p /= <<>> /\ job /= "encode"
Decoded == job = "end"

\* C2: for p in [0, 1] the code is within the range of the codec, p = 0
\* gives the lowest code and p = 1 the highest.
C2_EndsClamped ==
  Encoded =>
     \A i \in 1..2 :
        /\ code[i] \in Lowest..Highest
        /\ p[i] = 0 => code[i] = Lowest
        /\ p[i] = PScale => code[i] = Highest

\* n / PScale as a fixed-point number, n < 128 * 10^4
Micro(n) ==
  LET x1 == XDivSmall(<<(n % 100) * Limb, 0, 0>>, 100)
      x2 == XDivSmall(XAdd(<<((n \div 100) % 100) * Limb, 0, 0>>, <<x1[1], x1[2], x1[3]>>), 100)
      x3 == XDivSmall(XAdd(<<(n \div 10000) * Limb, 0, 0>>, <<x2[1], x2[2], x2[3]>>), 100)
  IN  <<x3[1], x3[2], x3[3]>>

\* | d - k/PScale | <= tol/PScale for a double d in [0, 1]
Within(d, k, tol) ==
  /\ k - tol < 0 \/ XLeq(Micro(k - tol), DblToX(d))
  /\ XLeq(DblToX(d), Micro(k + tol))

InRoundTripRange(k) == 30 <= k /\ k <= PScale - 30

\* C3 as stated: for p in [0.00003, 0.99997] the decoded value is within
\* 0.02 of p for the 8-bit codec and within 0.00024 for the 16-bit codec.
C3_RoundTripAsStated ==
  (Encoded /\ Decoded) =>
     \A i \in 1..2 :
        InRoundTripRange(p[i]) => Within(prob[i], p[i], IF width = 8 THEN 20000 ELSE 240)

\* C3, amended: for p in [0.00003, 0.99997] the decoded value is within
\* 0.021 of p for the 8-bit codec and within 0.000245 for the 16-bit codec.
C3_RoundTrip ==
  (Encoded /\ Decoded) =>
     \A i \in 1..2 :
        InRoundTripRange(p[i]) => Within(prob[i], p[i], IF width = 8 THEN 21000 ELSE 245)

C3_Witness ==
  /\ Encoded /\ Decoded
  /\ width = 16
  /\ p = <<499756, 500244>>
  /\ code = <<0, 0>>
  /\ ~Within(prob[2], p[2], 240)

\* C4: for p1 <= p2 in (0, 1) the code of p1 is at most the code of p2, and
\* for codes c1 <= c2 the decoded value of c1 is at most that of c2.
C4_Monotonic ==
  /\ (Encoded /\ 0 < p[1] /\ p[1] <= p[2] /\ p[2] < PScale) => code[1] <= code[2]
  /\ (Decoded /\ code[1] <= code[2]) => DblLeq(prob[1], prob[2])

C4_Witness ==
  /\ Encoded /\ Decoded
  /\ 0 < p[1] /\ p[1] < p[2] /\ p[2] < PScale
  /\ code[1] < code[2]
  /\ ~DblLeq(prob[2], prob[1])

\* the codes of p and 1 - p are opposite, and 0.5 has the code 0
EncodeSymmetric ==
  Encoded =>
     /\ (0 < p[1] /\ p[1] < PScale /\ p[1] + p[2] = PScale) => code[1] = -(code[2])
     /\ \A i \in 1..2 : 2 * p[i] = PScale => code[i] = 0

\* | x - y | for fixed-point numbers
XDist(x, y) == IF XLeq(x, y) THEN XSub(y, x) ELSE XSub(x, y)

\* C5 as stated: ef(1 - p) = -ef(p) for p in (0, 1), ef(0.5) = 0, and
\* DF(-c) = 1 - DF(c) for every code c, for both codecs.
C5_SymmetricAsStated ==
  /\ EncodeSymmetric
  /\ (Decoded /\ code[1] = -(code[2])) =>
        /\ prob[1] = OneMinus(prob[2])
        /\ prob[2] = OneMinus(prob[1])

\* C5, amended: ef(1 - p) = -ef(p) for p in (0, 1), ef(0.5) = 0, and DF(-c)
\* differs from 1 - DF(c) by 2^-52 at most for every code c (they are equal
\* at c = 0), for both codecs.
C5_Symmetric ==
  /\ EncodeSymmetric
  /\ (Decoded /\ code[1] = -(code[2])) =>
        /\ XLeq(XDist(DblToX(prob[1]), DblToX(OneMinus(prob[2]))), XShr(XOne, 52))
        /\ XLeq(XDist(DblToX(prob[2]), DblToX(OneMinus(prob[1]))), XShr(XOne, 52))
        /\ code[1] = 0 => prob[1] = OneMinus(prob[2])

C5_Witness ==
  /\ Encoded /\ Decoded
  /\ 0 < p[1] /\ p[1] + p[2] = PScale
  /\ code[1] = -(code[2]) /\ code[2] > 0
  /\ prob[1] /= OneMinus(prob[2])

-----------------------------------------------------------------------------
(* Properties of the flattened arrays (IndexSpec).                          *)


=============================================================================
